---- MODULE Spec2Model ----
(***************************************************************************)
(* Model of the credential core of jwt-auth (package jwt):                 *)
(*   credentials.go  - buildCredentialsFromClaims, buildCredentialsFrom-   *)
(*                     Strings, validateCsrfStringAgainstCredentials,      *)
(*                     updateAuthTokenFromRefreshToken,                    *)
(*                     validateAndUpdateCredentials                        *)
(*   jwtToken.go     - buildTokenWithClaimsFromString, newTokenWithClaims  *)
(*   auth-utils.go   - setCredentialsOnResponseWriter                      *)
(*                                                                         *)
(* A claim set is a Go map (jwtGo.MapClaims).  Go maps are reference       *)
(* values, so the model keeps the maps in a heap of named cells and a      *)
(* token holds the name of the cell its Claims pointer leads to.           *)
(* Time is counted in whole unix seconds.                                  *)
(*                                                                         *)
(* Token.Claims is an interface value, and the code reads it through type  *)
(* assertions, so a token also records the dynamic type of its Claims:     *)
(* newTokenWithClaims and the replacement of a nil parse result store a    *)
(* *jwtGo.MapClaims, while ParseWithClaims in src/jwt/jwtToken.go is       *)
(* handed jwtGo.MapClaims{} by value and stores that value in the token.   *)
(* The assertions of credentials.go ask for *jwtGo.MapClaims, those of     *)
(* auth-utils.go for *ClaimsType.                                          *)
(*                                                                         *)
(* The revocation oracle and the claims updater are the caller's; the      *)
(* oracle is the set of revoked ids, the updater either returns the map    *)
(* it was given or a new one.                                              *)
(***************************************************************************)
EXTENDS Integers, FiniteSets, Sequences, TLC

\* ------------------------------------------------------------------ bounds
MaxTime == 4
AuthTokenValidTime == 1
RefreshTokenValidTime == 3

\* ------------------------------------------------------------- value sets
CsrfVals == {"c1", "c2"}
Ids == {"i1"}
Cells == {"base", "pa", "pr", "upd"}
NilClaims == "nil"

EmptyClaims == [k \in {} |-> "x"]

Put(m, k, v) == [x \in (DOMAIN m) \cup {k} |-> IF x = k THEN v ELSE m[x]]

\* a *jwtError: Type is the status hint; Type = 0 stands for the nil error
NilErr == [Type |-> 0, msg |-> "nil"]
newJwtError(msg, type) == [Type |-> type, msg |-> msg]

\* GetClaimString(claims, key): the claim as a string, or an error when the
\* key is absent
GetClaimString(m, k) ==
  IF k \in DOMAIN m THEN [ok |-> TRUE, val |-> m[k]]
  ELSE [ok |-> FALSE, val |-> ""]

\* ------------------------------------------------------------ wire strings
\* kind "jwt": three well-formed segments; verif tells what the keyfunc and
\* the signature check will find.  kind "garbage": not three segments (the
\* empty string included).  kind "badheader": three segments whose header
\* does not decode.
Jwt(verif, claims) == [kind |-> "jwt", verif |-> verif, claims |-> claims]
Garbage == [kind |-> "garbage", verif |-> "none", claims |-> EmptyClaims]
BadHeader == [kind |-> "badheader", verif |-> "none", claims |-> EmptyClaims]
EmptyString == [kind |-> "empty", verif |-> "none", claims |-> EmptyClaims]

\* ----------------------------------------------------------------- tokens
\* a *jwtToken: present = FALSE is the nil pointer
\* ptr: the dynamic type of Token.Claims is *jwtGo.MapClaims
NoToken == [present |-> FALSE, Claims |-> NilClaims, ptr |-> FALSE, Valid |-> FALSE, ParseErr |-> "none"]

\* jwtGo.NewWithClaims(method, claims): the token refers to the caller's map
newTokenWithClaims(cell) ==
  [present |-> TRUE, Claims |-> cell, ptr |-> TRUE, Valid |-> FALSE, ParseErr |-> "none"]

\* the exp check of the parser's claims validation
Expired(claims, t) == "exp" \in DOMAIN claims /\ ~(t < claims["exp"])

\* the keyfunc: token.Method must be the configured signing method
KeyfuncAccepts(w) == w.verif # "badmethod"

\* jwtGo.ParseWithClaims(tokenString, jwtGo.MapClaims{}, keyfunc) + the
\* nil-token replacement; returns the token and the claim map the parse
\* filled.  A string that is not three segments gives no token, and the
\* replacement has Claims = new(jwtGo.MapClaims); three segments with an
\* undecodable header give a token whose Claims were never set; otherwise
\* the token holds the MapClaims value the parser was handed.
buildTokenWithClaimsFromString(w, t, cell) ==
  CASE w.kind \in {"garbage", "empty"} ->
         [tok |-> [present |-> TRUE, Claims |-> cell, ptr |-> TRUE, Valid |-> FALSE, ParseErr |-> "malformed"],
          claims |-> EmptyClaims]
    [] w.kind = "badheader" ->
         [tok |-> [present |-> TRUE, Claims |-> NilClaims, ptr |-> FALSE, Valid |-> FALSE, ParseErr |-> "malformed"],
          claims |-> EmptyClaims]
    [] OTHER ->
         [tok |-> [present |-> TRUE, Claims |-> cell, ptr |-> FALSE,
                   Valid |-> KeyfuncAccepts(w) /\ w.verif # "badsig" /\ ~Expired(w.claims, t),
                   ParseErr |-> IF ~KeyfuncAccepts(w) THEN "unverifiable"
                                ELSE IF w.verif = "badsig" THEN "signature"
                                ELSE IF Expired(w.claims, t) THEN "expired"
                                ELSE "none"],
          claims |-> w.claims]

MutAssertionIgnoresPointer(tok) == tok.Claims # NilClaims

\* Token.Claims.(*jwtGo.MapClaims): ok only when the interface holds that
\* pointer type
AsMapClaims(tok) == tok.Claims # NilClaims /\ tok.ptr

\* Token.SignedString(signKey): the claims are read when the token is signed
SignedString(tok, h) ==
  Jwt("ok", IF tok.Claims = NilClaims THEN EmptyClaims ELSE h[tok.Claims])

EmptyHeap == [c \in Cells |-> EmptyClaims]
NoCred == [CsrfString |-> "", AuthToken |-> NoToken, RefreshToken |-> NoToken]

\* what one call leaves behind: the credential set, the claim maps, the
\* returned *jwtError, the ids the oracle was asked about, the number of
\* calls of the claims updater, whether the refresh routine was entered, and
\* the string generateNewCsrfString handed out ("" when it handed out none)
Outcome(c, h, err, asked, updated, entered) ==
  [cred |-> c, heap |-> h, err |-> err, asked |-> asked, updated |-> updated,
   entered |-> entered, drawn |-> ""]

\* ------------------------------------------------------------- issuance
\* generateNewCsrfString(): gen.ok = FALSE is the random source failing
GenResults == {[ok |-> TRUE, val |-> v] : v \in CsrfVals} \cup {[ok |-> FALSE, val |-> ""]}

MutStampExpOnly(m, csrf, exp) == Put(m, "exp", exp)

\* claims["csrf"] = csrf; claims["exp"] = exp   (writes through to the map)
StampClaims(m, csrf, exp) == Put(Put(m, "csrf", csrf), "exp", exp)

\* authClaims := *claims and refreshClaimsClaims := *claims copy the map
\* header only: both names lead to the caller's map, cell "base"
buildCredentialsFromClaims(h, t, gen) ==
  IF ~gen.ok THEN Outcome(NoCred, h, newJwtError("csrf generation failed", 500), <<>>, 0, FALSE)
  ELSE
    LET h1 == [h EXCEPT !["base"] = StampClaims(h["base"], gen.val, t + AuthTokenValidTime)]
        authToken == newTokenWithClaims("base")
        h2 == [h1 EXCEPT !["base"] = StampClaims(h1["base"], gen.val, t + RefreshTokenValidTime)]
        refreshToken == newTokenWithClaims("base")
    IN [Outcome([CsrfString |-> gen.val, AuthToken |-> authToken, RefreshToken |-> refreshToken],
                h2, NilErr, <<>>, 0, FALSE) EXCEPT !.drawn = gen.val]

\* ---------------------------------------------------- parsing a request
buildCredentialsFromStrings(csrfString, authW, refreshW, t) ==
  LET a == buildTokenWithClaimsFromString(authW, t, "pa")
      r == buildTokenWithClaimsFromString(refreshW, t, "pr")
      hasRefresh == refreshW.kind # "empty"
  IN Outcome([CsrfString |-> csrfString,
              AuthToken |-> a.tok,
              RefreshToken |-> IF hasRefresh THEN r.tok ELSE NoToken],
             [EmptyHeap EXCEPT !["pa"] = a.claims,
                               !["pr"] = IF hasRefresh THEN r.claims ELSE EmptyClaims],
             NilErr, <<>>, 0, FALSE)

\* -------------------------------------------- reading the http request
\* A request is the csrf header value ("" when there is none) and the auth
\* and refresh strings (EmptyString when the cookie or header is missing).

\* newJwtError(err, type) handed a *jwtError: the status hint the error
\* already carries is the one the boundary gets
wrapJwtError(err, type) == IF err.Type # 0 THEN err ELSE [Type |-> type, msg |-> err.msg]

extractTokenStringsFromReq(r, bearer) ==
  IF bearer
  THEN [auth |-> r.auth, refresh |-> r.refresh, err |-> NilErr]
  ELSE IF r.auth.kind = "empty"
  THEN [auth |-> EmptyString, refresh |-> EmptyString, err |-> newJwtError("no auth cookie", 401)]
  ELSE [auth |-> r.auth, refresh |-> r.refresh, err |-> NilErr]

MutCsrfNotRequired(r) == [csrf |-> r.csrf, err |-> NilErr]

extractCsrfStringFromReq(r) ==
  IF r.csrf = ""
  THEN [csrf |-> "", err |-> newJwtError("no CSRF string", 401)]
  ELSE [csrf |-> r.csrf, err |-> NilErr]

buildCredentialsFromRequest(r, bearer, t) ==
  LET tk == extractTokenStringsFromReq(r, bearer)
      cs == extractCsrfStringFromReq(r)
  IN IF tk.err # NilErr
     THEN Outcome(NoCred, EmptyHeap, wrapJwtError(tk.err, 500), <<>>, 0, FALSE)
     ELSE IF cs.err # NilErr
     THEN Outcome(NoCred, EmptyHeap, wrapJwtError(cs.err, 500), <<>>, 0, FALSE)
     ELSE buildCredentialsFromStrings(cs.csrf, tk.auth, tk.refresh, t)

\* ------------------------------------------------- writing the response
\* Token.Claims.(*ClaimsType): the tokens of a credential set hold a
\* jwtGo.MapClaims or a *jwtGo.MapClaims (or nothing), never a *ClaimsType
AsClaimsType(tok) == FALSE

\* what the response carries: the token strings (EmptyString when not
\* written), the csrf header ("" when not written), the expiry headers (the
\* empty set when not written) and the error returned
NoResp == [auth |-> EmptyString, refresh |-> EmptyString, csrf |-> "",
           authExpiry |-> {}, refreshExpiry |-> {}, err |-> NilErr]

\* both tokens are signed and written (headers or cookies) before the
\* claims are asserted; the csrf and expiry headers come after
writeCredentials(c, h) ==
  LET authTokenString == SignedString(c.AuthToken, h)
      refreshTokenString == IF c.RefreshToken.present THEN SignedString(c.RefreshToken, h)
                            ELSE EmptyString
      tokensWritten == [NoResp EXCEPT !.auth = authTokenString, !.refresh = refreshTokenString]
  IN IF ~AsClaimsType(c.AuthToken)
     THEN [tokensWritten EXCEPT !.err = newJwtError("cannot read token claims", 500)]
     ELSE IF c.RefreshToken.present /\ ~AsClaimsType(c.RefreshToken)
     THEN [tokensWritten EXCEPT !.err = newJwtError("cannot read token claims", 500)]
     ELSE [tokensWritten EXCEPT
             !.csrf = c.CsrfString,
             !.authExpiry = {h[c.AuthToken.Claims]["exp"]},
             !.refreshExpiry = IF c.RefreshToken.present
                               THEN {h[c.RefreshToken.Claims]["exp"]} ELSE {}]

\* ------------------------------------------------------------ validation
MutCsrfNotChecked(c, h) == NilErr

validateCsrfStringAgainstCredentials(c, h) ==
  IF ~AsMapClaims(c.AuthToken)
  THEN newJwtError("cannot read token claims", 500)
  ELSE LET g == GetClaimString(h[c.AuthToken.Claims], "csrf")
       IN IF ~g.ok \/ c.CsrfString # g.val
          THEN newJwtError("CSRF token doesn't match value in auth token", 401)
          ELSE NilErr

\* the claims updater (options.UpdateTokenClaims): "same" hands back the map
\* it was given, "fresh" a new map with the role taken from the source of
\* truth; the result is the cell holding the returned map
UpdaterModes == {"same", "fresh"}
UpdateTokenClaims(h, cell, mode) ==
  IF mode = "same" THEN [cell |-> cell, heap |-> h]
  ELSE [cell |-> "upd", heap |-> [h EXCEPT !["upd"] = Put(h[cell], "role", "admin")]]

\* c.CsrfString = newCsrfString, then both tokens are rebuilt over the map
\* the updater returned: authClaims := claims and refreshClaimsClaims :=
\* claims are the same map again
reissueTokens(c, h, t, asked, gen, mode) ==
  LET u == UpdateTokenClaims(h, c.RefreshToken.Claims, mode)
      h1 == [u.heap EXCEPT ![u.cell] = StampClaims(u.heap[u.cell], gen.val, t + AuthTokenValidTime)]
      authToken == newTokenWithClaims(u.cell)
      h2 == [h1 EXCEPT ![u.cell] = StampClaims(h1[u.cell], gen.val, t + RefreshTokenValidTime)]
      refreshToken == newTokenWithClaims(u.cell)
  IN [Outcome([CsrfString |-> gen.val, AuthToken |-> authToken, RefreshToken |-> refreshToken],
              h2, NilErr, asked, 1, TRUE) EXCEPT !.drawn = gen.val]

\* the refresh token is valid and not revoked: a new csrf is generated
\* first, and nothing is assigned when that fails
reissue(c, h, t, asked, gen, mode) ==
  IF ~gen.ok
  THEN Outcome(c, h, newJwtError("csrf generation failed", 500), asked, 0, TRUE)
  ELSE reissueTokens(c, h, t, asked, gen, mode)

\* options.CheckTokenId: TRUE while the lineage id has not been revoked
CheckTokenId(revokedIds, id) == id \notin revokedIds

MutUpdateCallsUpdaterFirst(c, h, t, revokedIds, gen, mode) ==
  Outcome(c, h,
          newJwtError("refresh token is invalid. Cannot refresh auth token", 401), <<>>, 1, TRUE)

MutUpdateChecksValidityFirst(c, h, t, revokedIds, gen, mode) ==
  IF ~c.RefreshToken.present \/ ~c.RefreshToken.Valid
  THEN Outcome(c, h, newJwtError("refresh token is invalid. Cannot refresh auth token", 401), <<>>, 0, TRUE)
  ELSE IF ~AsMapClaims(c.RefreshToken)
  THEN Outcome(c, h, newJwtError("cannot read refresh token claims", 500), <<>>, 0, TRUE)
  ELSE
    LET claims == h[c.RefreshToken.Claims]
        g == GetClaimString(claims, "csrf")
        id == GetClaimString(claims, "id")
    IN IF ~g.ok \/ c.CsrfString # g.val
       THEN Outcome(c, h, newJwtError("CSRF token doesn't match value in refresh token", 401), <<>>, 0, TRUE)
       ELSE IF ~id.ok
       THEN Outcome(c, h, newJwtError("claim id not found", 500), <<>>, 0, TRUE)
       ELSE IF CheckTokenId(revokedIds, id.val)
       THEN reissue(c, h, t, <<id.val>>, gen, mode)
       ELSE Outcome(c, h, newJwtError("refresh token has been revoked. Cannot update auth token", 401),
                    <<id.val>>, 0, TRUE)

updateAuthTokenFromRefreshToken(c, h, t, revokedIds, gen, mode) ==
  IF ~c.RefreshToken.present
  THEN Outcome(c, h, newJwtError("refresh token is invalid. Cannot refresh auth token", 401), <<>>, 0, TRUE)
  ELSE IF ~AsMapClaims(c.RefreshToken)
  THEN Outcome(c, h, newJwtError("cannot read refresh token claims", 500), <<>>, 0, TRUE)
  ELSE
    LET claims == h[c.RefreshToken.Claims]
        g == GetClaimString(claims, "csrf")
        id == GetClaimString(claims, "id")
    IN IF ~g.ok \/ c.CsrfString # g.val
       THEN Outcome(c, h, newJwtError("CSRF token doesn't match value in refresh token", 401), <<>>, 0, TRUE)
       ELSE IF ~id.ok
       THEN Outcome(c, h, newJwtError("claim id not found", 500), <<>>, 0, TRUE)
       ELSE IF CheckTokenId(revokedIds, id.val)
       THEN IF c.RefreshToken.Valid
            THEN reissue(c, h, t, <<id.val>>, gen, mode)
            ELSE Outcome(c, h, newJwtError("refresh token is invalid. Cannot refresh auth token", 401),
                         <<id.val>>, 0, TRUE)
       ELSE Outcome(c, h, newJwtError("refresh token has been revoked. Cannot update auth token", 401),
                    <<id.val>>, 0, TRUE)

\* errors.Is(err, jwtGo.ErrTokenExpired): err is what the csrf check
\* returned, a *jwtError built from errors.New; the parse error of the auth
\* token (AuthToken.ParseErr) is not looked at, so the chain never holds
\* ErrTokenExpired
ErrorsIsTokenExpired(err) == FALSE

MutMayIssueAlways(verifyOnlyServer) == TRUE

\* if !c.options.VerifyOnlyServer
MayIssue(verifyOnlyServer) == ~verifyOnlyServer

\* the stateless branch: nothing is read but the auth token, nothing written
fastPath(c, h, t) == Outcome(c, h, NilErr, <<>>, 0, FALSE)

MutValidateNullifiesOnError(c, h, t, verifyOnlyServer, revokedIds, gen, mode) ==
  LET err == validateCsrfStringAgainstCredentials(c, h)
  IN IF err = NilErr /\ c.AuthToken.Valid
     THEN fastPath(c, h, t)
     ELSE Outcome(NoCred, h,
            newJwtError("Auth token is not valid, and not because it has expired", 401),
            <<>>, 0, FALSE)

MutValidateDependsOnTime(c, h, t, verifyOnlyServer, revokedIds, gen, mode) ==
  IF t = 0 THEN fastPath(c, h, t)
  ELSE Outcome(c, h,
         newJwtError("Auth token is not valid, and not because it has expired", 401),
         <<>>, 0, FALSE)

MutValidateAcceptsAll(c, h, t, verifyOnlyServer, revokedIds, gen, mode) == fastPath(c, h, t)

validateAndUpdateCredentials(c, h, t, verifyOnlyServer, revokedIds, gen, mode) ==
  LET err == validateCsrfStringAgainstCredentials(c, h)
  IN IF err = NilErr /\ c.AuthToken.Valid
     THEN fastPath(c, h, t)
     ELSE IF ErrorsIsTokenExpired(err) \/ (err # NilErr /\ err.Type = 401)
     THEN IF MayIssue(verifyOnlyServer)
          THEN updateAuthTokenFromRefreshToken(c, h, t, revokedIds, gen, mode)
          ELSE Outcome(c, h,
                 newJwtError("Auth token is expired and server is not authorized to issue new tokens", 401),
                 <<>>, 0, FALSE)
     ELSE Outcome(c, h,
            newJwtError("Auth token is not valid, and not because it has expired", 401),
            <<>>, 0, FALSE)

\* ------------------------------------------------------- the state machine
VARIABLES now, verifyOnly, bearerTokens, revoked, phase, cred, heap, result,
          asked, updated, entered, drawn, req, pre, jar, resp, first

vars == <<now, verifyOnly, bearerTokens, revoked, phase, cred, heap, result,
          asked, updated, entered, drawn, req, pre, jar, resp, first>>

config == <<verifyOnly, bearerTokens>>

NoJar == [held |-> FALSE, csrf |-> "", auth |-> EmptyString, refresh |-> EmptyString,
          issuedAt |-> 0, by |-> "none", custom |-> EmptyClaims]
NoReq == [csrf |-> "", auth |-> EmptyString, refresh |-> EmptyString, origin |-> "none"]
NoPre == [cred |-> NoCred, heap |-> EmptyHeap]

\* claims a caller hands to issuance
BaseClaims == {[id |-> "i1", role |-> "user"], [role |-> "user"],
               [id |-> "i1", role |-> "user", csrf |-> "c2", exp |-> 0]}

\* tokens a client may present besides the ones it was given
ForgedExps == {1, MaxTime}
OptionalClaim(m, k, v) == IF v = "absent" THEN m ELSE Put(m, k, v)
ForgedClaims(c, e, i) ==
  OptionalClaim(OptionalClaim([exp |-> e, role |-> "user"], "csrf", c), "id", i)
ForgedTokens ==
  {Jwt("ok", ForgedClaims(c, e, i)) :
      c \in CsrfVals \cup {"absent"}, e \in ForgedExps, i \in Ids \cup {"absent"}}
  \cup {Jwt(v, ForgedClaims(c, MaxTime, "i1")) :
      v \in {"badsig", "badmethod"}, c \in CsrfVals \cup {"absent"}}
  \cup {Garbage, BadHeader}

\* requests that lack the csrf value, the auth string, or everything
BareRequests ==
  {[csrf |-> c, auth |-> a, refresh |-> EmptyString, origin |-> "bare"] :
      c \in {"", "c1"}, a \in {EmptyString, Jwt("ok", ForgedClaims("c1", MaxTime, "i1"))}}
  \ {[csrf |-> "c1", auth |-> Jwt("ok", ForgedClaims("c1", MaxTime, "i1")),
       refresh |-> EmptyString, origin |-> "bare"]}

\* the claims of a map other than the two the core stamps
Custom(m) == [k \in (DOMAIN m) \ {"csrf", "exp"} |-> m[k]]

\* the csrf claim of a signed token altered and the token signed again
Resigned(w, csrf) == Jwt("ok", Put(w.claims, "csrf", csrf))

\* requests made with the strings the client was given: as they are, or with
\* the auth token's csrf claim altered
JarRequests ==
  {[csrf |-> jar.csrf, auth |-> jar.auth, refresh |-> jar.refresh, origin |-> "original"]}
  \cup {[csrf |-> jar.csrf, auth |-> Resigned(jar.auth, c), refresh |-> jar.refresh,
         origin |-> "tampered"] : c \in CsrfVals \ {jar.csrf}}

\* the outcome class of a call: how it ended
OutcomeClass(err, refreshed) ==
  IF err = NilErr THEN (IF refreshed THEN "Refreshed" ELSE "AuthValid")
  ELSE IF err.Type = 401 THEN "Unauthorized" ELSE "InternalError"

\* the outcome class of the first request made with the issued pair as it
\* is, and whether the request at hand is a later one
NoFirst == [class |-> "none", replay |-> FALSE]

Init ==
  /\ now = 0
  /\ verifyOnly \in BOOLEAN
  /\ bearerTokens \in BOOLEAN
  /\ revoked = {}
  /\ phase = "idle"
  /\ cred = NoCred
  /\ heap = EmptyHeap
  /\ result = NilErr
  /\ asked = <<>>
  /\ updated = 0
  /\ entered = FALSE
  /\ drawn = ""
  /\ req = NoReq
  /\ pre = NoPre
  /\ jar = NoJar
  /\ resp = NoResp
  /\ first = NoFirst

Install(out) ==
  /\ cred' = out.cred
  /\ heap' = out.heap
  /\ result' = out.err
  /\ asked' = out.asked
  /\ updated' = out.updated
  /\ entered' = out.entered
  /\ drawn' = out.drawn

Reset ==
  /\ phase' = "idle"
  /\ cred' = NoCred
  /\ heap' = EmptyHeap
  /\ result' = NilErr
  /\ asked' = <<>>
  /\ updated' = 0
  /\ entered' = FALSE
  /\ drawn' = ""
  /\ req' = NoReq
  /\ pre' = NoPre
  /\ resp' = NoResp

\* a second passes between two requests
Tick ==
  /\ phase = "idle"
  /\ now < MaxTime
  /\ now' = now + 1
  /\ UNCHANGED <<config, revoked, phase, cred, heap, result, asked, updated, entered, drawn, req, pre, jar, resp, first>>

\* the caller revokes a lineage id; the oracle answers false from then on
RevokeId ==
  /\ phase = "idle"
  /\ \E id \in Ids \ revoked : revoked' = revoked \cup {id}
  /\ UNCHANGED <<now, config, phase, cred, heap, result, asked, updated, entered, drawn, req, pre, jar, resp, first>>

\* a login: the caller's claims are in cell "base"
IssueNewTokens ==
  /\ phase = "idle"
  /\ \E base \in BaseClaims, gen \in GenResults :
       LET h0 == [EmptyHeap EXCEPT !["base"] = base]
           out == buildCredentialsFromClaims(h0, now, gen)
       IN /\ Install(out)
          /\ pre' = [cred |-> NoCred, heap |-> h0]
          /\ phase' = IF out.err = NilErr THEN "issued" ELSE "failed"
  /\ UNCHANGED <<now, config, revoked, req, jar, resp, first>>

\* a request arrives: the original strings, or any others
BuildFromRequest ==
  /\ phase = "idle"
  /\ \E r \in
        {[csrf |-> c, auth |-> a, refresh |-> f, origin |-> "forged"] :
            c \in CsrfVals, a \in ForgedTokens, f \in ForgedTokens \cup {EmptyString}}
        \cup BareRequests
        \cup (IF jar.held THEN JarRequests ELSE {}) :
       LET out == buildCredentialsFromRequest(r, bearerTokens, now)
       IN /\ Install(out)
          /\ req' = r
          /\ pre' = [cred |-> out.cred, heap |-> out.heap]
          /\ phase' = IF out.err = NilErr THEN "built" ELSE "failed"
  /\ UNCHANGED <<now, config, revoked, jar, resp, first>>

Validate ==
  /\ phase = "built"
  /\ \E gen \in GenResults, mode \in UpdaterModes :
       LET out == validateAndUpdateCredentials(cred, heap, now, verifyOnly, revoked, gen, mode)
       IN /\ Install(out)
          /\ first' = IF req.origin # "original" THEN first
                      ELSE IF first = NoFirst
                      THEN [class |-> OutcomeClass(out.err, out.entered), replay |-> FALSE]
                      ELSE [first EXCEPT !.replay = TRUE]
  /\ phase' = "validated"
  /\ UNCHANGED <<now, config, revoked, req, pre, jar, resp>>

\* the response is written; jar keeps the pair and the csrf of the
\* credential set when they answer a login or a request made with the
\* pair issued before
setCredentialsOnResponseWriter ==
  /\ \/ phase = "issued"
     \/ phase = "validated" /\ result = NilErr /\ ~verifyOnly
  /\ jar' = IF phase = "issued" \/ req.origin \in {"original", "tampered"}
            THEN [held |-> TRUE, csrf |-> cred.CsrfString,
                  auth |-> SignedString(cred.AuthToken, heap),
                  refresh |-> IF cred.RefreshToken.present
                              THEN SignedString(cred.RefreshToken, heap)
                              ELSE EmptyString,
                  issuedAt |-> IF phase = "issued" \/ entered THEN now ELSE jar.issuedAt,
                  by |-> IF phase = "issued" THEN "issue"
                         ELSE IF entered THEN "refresh" ELSE jar.by,
                  custom |-> IF phase = "issued" THEN Custom(pre.heap["base"])
                             ELSE IF entered THEN Custom(SignedString(cred.AuthToken, heap).claims)
                             ELSE jar.custom]
            ELSE jar
  /\ resp' = writeCredentials(cred, heap)
  /\ first' = IF phase = "issued" \/ entered THEN NoFirst ELSE first
  /\ phase' = "responded"
  /\ UNCHANGED <<now, config, revoked, cred, heap, result, asked, updated, entered, drawn, req, pre>>

\* the credential set does not outlive the request
Discard ==
  /\ \/ phase \in {"failed", "responded"}
     \/ phase = "validated" /\ (result # NilErr \/ verifyOnly)
  /\ Reset
  /\ first' = [first EXCEPT !.replay = FALSE]
  /\ UNCHANGED <<now, config, revoked, jar>>

Next ==
  \/ Tick
  \/ RevokeId
  \/ IssueNewTokens
  \/ BuildFromRequest
  \/ Validate
  \/ setCredentialsOnResponseWriter
  \/ Discard

Spec == Init /\ [][Next]_vars

\* ------------------------------------------------------------ vocabulary
Done == phase = "validated"
Success == result = NilErr
Refreshed == Done /\ Success /\ entered
AuthValid == Done /\ Success /\ ~entered
Untouched == cred = pre.cred /\ heap = pre.heap

\* the claim map a token of the presented credential set refers to
ClaimsOf(tok, h) == IF tok.Claims = NilClaims THEN EmptyClaims ELSE h[tok.Claims]
PreAuthClaims == ClaimsOf(pre.cred.AuthToken, pre.heap)
PreRefreshClaims == ClaimsOf(pre.cred.RefreshToken, pre.heap)

HasCsrf(m, v) == "csrf" \in DOMAIN m /\ m["csrf"] = v
AuthCsrfMatches == pre.cred.AuthToken.Claims # NilClaims /\ HasCsrf(PreAuthClaims, pre.cred.CsrfString)
RefreshCsrfMatches ==
  /\ pre.cred.RefreshToken.present
  /\ pre.cred.RefreshToken.Claims # NilClaims
  /\ HasCsrf(PreRefreshClaims, pre.cred.CsrfString)
\* a refresh token that would carry a refresh: bound to the presented csrf,
\* with a lineage id, verified and unexpired
RefreshUsable == RefreshCsrfMatches /\ "id" \in DOMAIN PreRefreshClaims /\ pre.cred.RefreshToken.Valid

NotValidMsg == "Auth token is not valid, and not because it has expired"
RevokedMsg == "refresh token has been revoked. Cannot update auth token"

\* ---------------------------------------------------------------- claims

\* C1: fast path.  When the auth token's csrf claim equals the presented
\* csrf and the auth token is valid, the call succeeds, leaves the csrf
\* string, both tokens and their claim maps as they were, does not enter the
\* refresh routine, and calls neither the oracle nor the updater, whatever
\* the refresh token is and whether or not the server is verify-only.
C1_FastPath ==
  (Done /\ AuthCsrfMatches /\ pre.cred.AuthToken.Valid)
    => (Success /\ Untouched /\ ~entered /\ asked = <<>> /\ updated = 0)

\* C2: acceptance soundness.  A call succeeds only if (a) the presented csrf
\* equals the auth token's csrf claim and the auth token is valid, or (b)
\* the server may issue, a refresh token is present, its csrf claim equals
\* the presented csrf, it carries an id the oracle answered true for, and it
\* is valid.
C2_AcceptanceSound ==
  (Done /\ Success) =>
    \/ AuthCsrfMatches /\ pre.cred.AuthToken.Valid
    \/ /\ ~verifyOnly
       /\ RefreshUsable
       /\ asked = <<PreRefreshClaims["id"]>>
       /\ CheckTokenId(revoked, PreRefreshClaims["id"])

C2_Witness ==
  /\ Done /\ ~Success
  /\ pre.cred.AuthToken.Valid /\ ~AuthCsrfMatches
  /\ ~pre.cred.RefreshToken.present /\ ~verifyOnly

\* C3: refresh on expiry.  A pair issued with AuthTokenValidTime shorter
\* than RefreshTokenValidTime, presented unchanged with its csrf after the
\* auth validity time and before the refresh validity time, to a server
\* that may issue and whose oracle answers true, ends in Refreshed.
RefreshScenario ==
  /\ Done
  /\ req.origin = "original" /\ jar.by = "issue"
  /\ AuthTokenValidTime < RefreshTokenValidTime
  /\ jar.issuedAt + AuthTokenValidTime <= now
  /\ now < jar.issuedAt + RefreshTokenValidTime
  /\ ~verifyOnly
  /\ revoked = {}
  /\ "id" \in DOMAIN PreRefreshClaims

C3_RefreshOnExpiry == RefreshScenario => Refreshed

\* C4: refresh is attempted only on expiry.  When the auth token fails
\* because its csrf claim differs from the presented csrf, or because it is
\* malformed or badly signed, the call returns 401 without entering the
\* refresh routine, calling the oracle or the updater, or changing the
\* credential set, whatever the refresh token is.
AuthFailsOtherwise ==
  \/ ~AuthCsrfMatches
  \/ pre.cred.AuthToken.ParseErr \in {"malformed", "signature", "unverifiable"}

C4_RefreshOnlyOnExpiry ==
  (Done /\ AuthFailsOtherwise) =>
    /\ result.Type = 401
    /\ ~entered /\ asked = <<>> /\ updated = 0
    /\ Untouched

\* C5: csrf tamper.  A valid, unexpired auth token signed again with only
\* its csrf claim altered, presented with the refresh token and the csrf as
\* issued, is rejected and nothing new is produced.
C5_CsrfTamperRejected ==
  (Done /\ req.origin = "tampered" /\ pre.cred.AuthToken.Valid) =>
    (result.Type = 401 /\ Untouched)

C5_Witness ==
  /\ Done /\ req.origin = "tampered" /\ pre.cred.AuthToken.Valid
  /\ RefreshUsable /\ ~verifyOnly /\ revoked = {}
  /\ result.Type = 401

\* C6: revocation.  With the refresh token's id revoked, an expired auth
\* token (sound but for its expiry) and an otherwise valid, csrf-matching
\* refresh token give 401 with the reason "revoked"; the updater is not
\* called and the credential set is left as it was.
C6_RevokedReported ==
  ( /\ Done
    /\ ~verifyOnly
    /\ AuthCsrfMatches /\ pre.cred.AuthToken.ParseErr = "expired"
    /\ RefreshUsable
    /\ ~CheckTokenId(revoked, PreRefreshClaims["id"]) )
    => (result = newJwtError(RevokedMsg, 401) /\ updated = 0 /\ Untouched)

\* C7: all or nothing.  Whenever the call returns an error, 401 or 500, the
\* csrf string, both tokens and their claim maps are what they were before
\* the call.
C7_AllOrNothing == (Done /\ ~Success) => Untouched

C7_Witness ==
  Done /\ entered /\ result.Type = 500 /\ pre.cred.RefreshToken.Valid

\* C8: verify-only.  A verify-only server never ends in Refreshed, answers
\* an expired auth token accompanied by a usable refresh token with 401, and
\* on every input neither enters the refresh routine, calls the oracle or
\* the updater, nor changes the credential set.
C8_VerifyOnly ==
  (Done /\ verifyOnly) =>
    /\ ~Refreshed
    /\ ~entered /\ asked = <<>> /\ updated = 0
    /\ Untouched
    /\ (pre.cred.AuthToken.ParseErr = "expired" /\ RefreshUsable) => result.Type = 401

C8_Witness ==
  /\ Done /\ verifyOnly
  /\ pre.cred.AuthToken.ParseErr = "expired" /\ ~AuthCsrfMatches
  /\ RefreshUsable /\ revoked = {}
  /\ result.Type = 401

\* C9: issuance binding.  After a successful issuance both tokens are
\* populated and the csrf claim of each equals the csrf string of the
\* credential set.
C9_IssuanceBinding ==
  (phase = "issued") =>
    /\ cred.AuthToken.present /\ cred.RefreshToken.present
    /\ cred.CsrfString \in CsrfVals
    /\ HasCsrf(SignedString(cred.AuthToken, heap).claims, cred.CsrfString)
    /\ HasCsrf(SignedString(cred.RefreshToken, heap).claims, cred.CsrfString)

C9_Witness ==
  /\ phase = "issued"
  /\ "csrf" \in DOMAIN pre.heap["base"]
  /\ pre.heap["base"]["csrf"] # cred.CsrfString

\* C10: issuance expiries.  After issuance at time now the auth token, as
\* it will be signed, carries exp = now + AuthTokenValidTime and the refresh
\* token exp = now + RefreshTokenValidTime.
C10_IssuanceExpiries ==
  (phase = "issued") =>
    /\ SignedString(cred.AuthToken, heap).claims["exp"] = now + AuthTokenValidTime
    /\ SignedString(cred.RefreshToken, heap).claims["exp"] = now + RefreshTokenValidTime

C14_RoundTrip ==
  (Done /\ req.origin = "original" /\ jar.by = "issue" /\ now = jar.issuedAt) =>
    /\ AuthValid
    /\ Custom(PreAuthClaims) = jar.custom

\* C15: no credentials.  A request with no auth token, no refresh token
\* and no csrf value fails before a credential set is built, with the
\* status hint 401; no csrf string is generated, no token is created, the
\* updater is not called and nothing can be written to the response.
NoCredentialsRequest ==
  req.origin = "bare" /\ req.csrf = "" /\ req.auth = EmptyString /\ req.refresh = EmptyString

BothExpired ==
  /\ Done /\ req.origin = "original" /\ jar.by = "issue"
  /\ now >= jar.issuedAt + AuthTokenValidTime
  /\ now >= jar.issuedAt + RefreshTokenValidTime

C16_BothExpired == BothExpired => (result.Type = 401 /\ Untouched /\ updated = 0)

C16_Witness ==
  /\ BothExpired /\ revoked = {} /\ ~verifyOnly
  /\ "id" \in DOMAIN PreRefreshClaims
  /\ result.Type = 401

\* C17: signing method.  A credential set whose auth token and refresh
\* token (when there is one) were signed with another method than the
\* configured one is never accepted: the call ends neither AuthValid nor
\* Refreshed, whatever the csrf and the claims are.
WrongMethod ==
  /\ Done /\ req.auth.verif = "badmethod"
  /\ req.refresh.kind = "empty" \/ req.refresh.verif = "badmethod"

C17_SigningMethod == WrongMethod => (~AuthValid /\ ~Refreshed)

C17_Witness ==
  /\ WrongMethod /\ req.refresh.verif = "badmethod"
  /\ AuthCsrfMatches /\ RefreshCsrfMatches /\ ~verifyOnly
  /\ result.Type = 401

InvalidRefreshMsg == "refresh token is invalid. Cannot refresh auth token"
RefreshCsrfMsg == "CSRF token doesn't match value in refresh token"

C20_InvalidRefresh ==
  (Done /\ entered /\ req.origin = "forged" /\ req.refresh.kind \in {"empty", "garbage", "badheader"}) =>
    (result = newJwtError(InvalidRefreshMsg, 401) /\ asked = <<>>)

\* C21: missing lineage id.  A csrf-matching, valid auth token without an id
\* claim validates as AuthValid; a refresh attempted with a csrf-matching
\* refresh token without an id claim gives the status hint 500, the oracle
\* is not asked and the credential set is left as it was.
C21_MissingId ==
  Done =>
    /\ (AuthCsrfMatches /\ pre.cred.AuthToken.Valid /\ "id" \notin DOMAIN PreAuthClaims)
         => AuthValid
    /\ (entered /\ RefreshCsrfMatches /\ "id" \notin DOMAIN PreRefreshClaims)
         => (result.Type = 500 /\ asked = <<>> /\ Untouched)

\* C22: fail-soft parse.  Whatever the auth string is, the parsed token has
\* a Token and Claims, and when the parse failed its claim set is empty, its
\* ParseErr is set and it is not valid.
C22_FailSoftParse ==
  (phase = "built") =>
    /\ cred.AuthToken.present
    /\ cred.AuthToken.Claims # NilClaims
    /\ req.auth.kind # "jwt" => cred.AuthToken.ParseErr # "none"
    /\ cred.AuthToken.ParseErr # "none" =>
         (ClaimsOf(cred.AuthToken, heap) = EmptyClaims /\ ~cred.AuthToken.Valid)

\* C23: status hint of an unreadable claim set.  When the claims of the
\* auth token cannot be read, the call returns the status hint 500, not the
\* 401 of a csrf mismatch.
C23_UnreadableClaimsHint ==
  (Done /\ ~AsMapClaims(pre.cred.AuthToken)) => result.Type = 500

\* C24: stateless-only client.  A request with a csrf value and an auth
\* string but no refresh string is not an extraction error; the credential
\* set built from it has the presented csrf, an auth token and no refresh
\* token, and validates as AuthValid when the auth token is valid and its
\* csrf claim matches.
NoRefreshRequest ==
  /\ req.origin \in {"forged", "bare"} /\ req.refresh = EmptyString
  /\ req.csrf # "" /\ req.auth # EmptyString

C24_StatelessClient ==
  NoRefreshRequest =>
    /\ phase \in {"built", "validated"}
    /\ pre.cred.CsrfString = req.csrf
    /\ pre.cred.AuthToken.present /\ ~pre.cred.RefreshToken.present
    /\ (Done /\ AuthCsrfMatches /\ pre.cred.AuthToken.Valid) => AuthValid

\* C25: outbound credentials.  After an issue or a refresh the response
\* writer returns no error and has written the auth token string, the csrf
\* and the auth expiry, and the refresh token string and refresh expiry
\* exactly when the credential set has a refresh token.
C25_OutboundCredentials ==
  (phase = "responded") =>
    /\ resp.err = NilErr
    /\ resp.auth = SignedString(cred.AuthToken, heap)
    /\ resp.csrf = cred.CsrfString
    /\ resp.authExpiry = {SignedString(cred.AuthToken, heap).claims["exp"]}
    /\ cred.RefreshToken.present <=> resp.refresh # EmptyString
    /\ cred.RefreshToken.present <=> resp.refreshExpiry # {}

AfterAuthWindow ==
  /\ Done /\ req.origin = "original" /\ jar.by = "issue"
  /\ now > jar.issuedAt + AuthTokenValidTime

C27_BoundedWindow ==
  AfterAuthWindow =>
    /\ ~AuthValid
    /\ ("id" \in DOMAIN PreRefreshClaims /\ PreRefreshClaims["id"] \in revoked)
         => result.Type = 401

C27_Witness ==
  /\ AfterAuthWindow /\ now < jar.issuedAt + RefreshTokenValidTime
  /\ "id" \in DOMAIN PreRefreshClaims /\ PreRefreshClaims["id"] \in revoked
  /\ ~verifyOnly /\ result.Type = 401

\* C28: issuance does not modify its input.  After issuance the caller's
\* base claims are what they were, and the two tokens do not share a claim
\* map with them or with each other.
C28_IssuanceLeavesInput ==
  (phase = "issued") =>
    /\ heap["base"] = pre.heap["base"]
    /\ cred.AuthToken.Claims # "base" /\ cred.RefreshToken.Claims # "base"
    /\ cred.AuthToken.Claims # cred.RefreshToken.Claims

\* C29: no cross-request state.  The issued pair and csrf, presented again
\* in a later request while the oracle still answers true and the refresh
\* token has not expired, end in the outcome class of the first request
\* made with them.
Replayed ==
  /\ Done /\ req.origin = "original"
  /\ first.replay
  /\ revoked = {}
  /\ now < jar.issuedAt + RefreshTokenValidTime

C30_WriteAllOrNothing ==
  (phase = "responded" /\ resp.err # NilErr) =>
    /\ resp.auth = EmptyString /\ resp.refresh = EmptyString
    /\ resp.csrf = "" /\ resp.authExpiry = {} /\ resp.refreshExpiry = {}

\* C31: refreshed credentials are usable at once.  The issued pair,
\* presented between its two validity times with the oracle answering true,
\* is refreshed; the new tokens, written out and presented with the new csrf
\* in the same second, are accepted on the fast path, with no further
\* refresh and no oracle call.
PresentedAgain(gen, mode) ==
  LET b == buildCredentialsFromStrings(cred.CsrfString,
                                       SignedString(cred.AuthToken, heap),
                                       SignedString(cred.RefreshToken, heap), now)
  IN validateAndUpdateCredentials(b.cred, b.heap, now, verifyOnly, revoked, gen, mode)

====
